---------------------------- MODULE Spec2Model ----------------------------
(***************************************************************************)
(* A model of the ecommerce backend of src/main.py: the products and       *)
(* orders collections of the document store, the create-product,           *)
(* list-products and place-order handlers, and the store-error boundary    *)
(* handle_db_operation.                                                    *)
(*                                                                         *)
(* Text is a sequence of one-character strings, so that the substring      *)
(* tests of the code ("SSL" in error_msg, the $regex name filter) are      *)
(* computed and not assumed.  A document's _id is its position in the      *)
(* collection: the store hands out ids in insertion order and nothing is   *)
(* ever deleted.  Prices are integers (a price in cents); the order total  *)
(* is accumulated in the order of the items, as the code does.  The        *)
(* timestamp of an order is left out: nothing reads it.                    *)
(*                                                                         *)
(* The store answers every operation: connection failures are not part of  *)
(* the model.  A place-order request is a sequence of store operations     *)
(* (find_one, update_one, ..., insert_one); under Spec the operations of   *)
(* two requests interleave, as they do when several workers serve one      *)
(* store, and under SeqSpec one request runs at a time.                    *)
(***************************************************************************)
EXTENDS Integers, Sequences, FiniteSets, TLC

VARIABLES
    products,   \* products_collection: sequence of documents, in insertion order
    orders,     \* orders_collection: sequence of order documents
    call,       \* per client: the place-order request it is running
    listing,    \* the last list-products request and its response
    created,    \* history: the quantity each product was created with
    calls,      \* history: number of place-order calls begun
    hist        \* history of the sequential runs: the store before the call, flags

vars == <<products, orders, call, listing, created, calls, hist>>

-----------------------------------------------------------------------------
(* Bounds of the model. *)

MaxProducts == 1
MaxCalls == 2
MaxListed == 3
MaxLimit == 2
MaxOffset == 2

-----------------------------------------------------------------------------
(* Text. *)

T(s) == <<s>>

LowerOf ==
    ("L" :> "l") @@ ("A" :> "a") @@ ("P" :> "p") @@ ("D" :> "d") @@ ("S" :> "s")

\* str.lower on one character, as the "i" option of $regex folds case.
Lower(c) == IF c \in DOMAIN LowerOf THEN LowerOf[c] ELSE c

\* Python's `needle in text`.
Contains(text, needle) ==
    \E k \in 0..(Len(text) - Len(needle)) :
        \A j \in 1..Len(needle) : text[k + j] = needle[j]

\* Case-insensitive substring containment, the reading of the name filter
\* the specification gives.
ContainsCI(text, needle) ==
    \E k \in 0..(Len(text) - Len(needle)) :
        \A j \in 1..Len(needle) : Lower(text[k + j]) = Lower(needle[j])

Laptop == <<"L", "a", "p", "t", "o", "p">>
Desk == <<"D", "e", "s", "k">>
SSLKit == <<"S", "S", "L">>
SSL == <<"S", "S", "L">>
Handshake == <<"h", "a", "n", "d", "s", "h", "a", "k", "e">>


-----------------------------------------------------------------------------
(* The store-error boundary. *)

DatabaseConnectionIssue ==
    T("Database connection issue. Please check MongoDB Atlas configuration.")

\* handle_db_operation's except branch, on the text str(e) of the exception.
handle_db_operation(error_msg) ==
    IF Contains(error_msg, SSL) \/ Contains(error_msg, Handshake)
    THEN [status_code |-> 503, detail |-> DatabaseConnectionIssue]
    ELSE [status_code |-> 500, detail |-> T("Database error: ") \o error_msg]

\* An HTTPException as the handlers raise it.
HTTPException(status_code, detail) ==
    [status_code |-> status_code, detail |-> detail]

NoException == HTTPException(0, <<>>)

\* str(e) of an HTTPException.  The class is a subclass of Exception whose
\* arguments are passed by keyword: str(e) is empty where the framework does
\* not define __str__, and "<status_code>: <detail>" where it does.  Both
\* builds are possible, so this is the set of the outcomes.
StrOfHTTPException(e) ==
    { <<>>, <<ToString(e.status_code), ":", " ">> \o e.detail }

-----------------------------------------------------------------------------
(* The products collection and list-products. *)

\* The documents create-product is called with while orders are placed:
\* one in stock, one whose name holds "SSL" and whose quantity is negative
\* (create-product checks neither).
ProductInputs ==
    { [name |-> Laptop, price |-> 3, quantity |-> 2],
      [name |-> SSLKit, price |-> 2, quantity |-> -1] }

\* The documents of the collections list-products is checked over.
ListInputs ==
    { [name |-> Laptop, price |-> 3, quantity |-> 2],
      [name |-> Desk,   price |-> 5, quantity |-> 0],
      [name |-> SSLKit, price |-> 2, quantity |-> -1] }

\* serialize_doc: the stored document with its _id exposed.
serialize_doc(coll, id) ==
    [_id |-> id, name |-> coll[id].name, price |-> coll[id].price,
     quantity |-> coll[id].quantity]

\* The filter texts of the model.  <<>> stands for both None and "": either
\* is falsy and adds no filter.
Filters ==
    { <<>>,
      <<"l", "a", "p">>, <<"L", "A", "P">>, <<"t", "o", "p">>, <<"e", "s">>,
      <<"s", "s", "l">>, <<"x">>,
      <<".">>, <<"p", ".", "o">>, <<"^", "d">>, <<"^", "a">>, <<"(">> }

Sizes == { <<>>, <<"M">> }

RegexMeta == { ".", "^", "(" }

\* A pattern the regex engine compiles: "(" opens a group nothing closes.
RegexValid(pattern) == \A j \in 1..Len(pattern) : pattern[j] # "("

\* The regex engine on the patterns of the model, from position k of the
\* text: a literal matches its character with case folded (option "i"),
\* "." any one character, "^" the start of the text.
RECURSIVE MatchHere(_, _, _)
MatchHere(pattern, text, k) ==
    IF pattern = <<>> THEN TRUE
    ELSE IF Head(pattern) = "^"
         THEN k = 1 /\ MatchHere(Tail(pattern), text, k)
    ELSE IF Head(pattern) = "."
         THEN k <= Len(text) /\ MatchHere(Tail(pattern), text, k + 1)
    ELSE k <= Len(text) /\ Lower(text[k]) = Lower(Head(pattern))
         /\ MatchHere(Tail(pattern), text, k + 1)

\* The same engine without option "i".
RegexSearchCaseSensitive(pattern, text) ==
    \E k \in 0..(Len(text) - Len(pattern)) :
        \A j \in 1..Len(pattern) : pattern[j] = "." \/ text[k + j] = pattern[j]

\* {"$regex": pattern, "$options": "i"}: an unanchored search.
RegexSearch(pattern, text) ==
    \E k \in 1..(Len(text) + 1) : MatchHere(pattern, text, k)

\* get_products' query_filter against one document.  No stored document has
\* a size field: create-product stores name, price and quantity only.
DocMatches(doc, name, size) ==
    /\ name # <<>> => RegexSearch(name, doc.name)
    /\ size # <<>> => ("size" \in DOMAIN doc /\ doc.size = size)

\* find(query_filter): the ids of the first n documents that match, in
\* insertion order.
RECURSIVE Find(_, _, _, _)
Find(coll, name, size, n) ==
    IF n = 0 THEN <<>>
    ELSE LET rest == Find(coll, name, size, n - 1)
         IN  IF DocMatches(coll[n], name, size) THEN Append(rest, n) ELSE rest

Abs(n) == IF n < 0 THEN -n ELSE n

Min(a, b) == IF a < b THEN a ELSE b

\* cursor.skip(offset).limit(limit) for offset >= 0: a limit of 0 is no
\* limit, a negative limit is its absolute value (one batch).
SkipLimit(ids, offset, limit) ==
    LET rest == SubSeq(ids, offset + 1, Len(ids))
        n    == IF limit = 0 THEN Len(rest) ELSE Min(Abs(limit), Len(rest))
    IN  SubSeq(rest, 1, n)

DefaultLimit == 10

Limits == (-1..MaxLimit) \cup {DefaultLimit}

Offsets == -1..MaxOffset

NoListing ==
    [name |-> <<>>, size |-> <<>>, limit |-> DefaultLimit, offset |-> 0,
     status_code |-> 0, products |-> <<>>, detail |-> <<>>]

\* GET /products.  One request per run: it reads the store and changes
\* nothing, so a second one would see what the first saw.
list_products(name, size, limit, offset) ==
    /\ listing.status_code = 0
    /\ listing' =
         IF offset < 0
         THEN LET r == handle_db_operation(T("skip must be >= 0"))
              IN  [name |-> name, size |-> size, limit |-> limit,
                   offset |-> offset, status_code |-> r.status_code,
                   products |-> <<>>, detail |-> r.detail]
         ELSE IF name # <<>> /\ ~RegexValid(name)
         THEN LET r == handle_db_operation(T("Regular expression is invalid"))
              IN  [name |-> name, size |-> size, limit |-> limit,
                   offset |-> offset, status_code |-> r.status_code,
                   products |-> <<>>, detail |-> r.detail]
         ELSE LET ids == SkipLimit(Find(products, name, size, Len(products)),
                                   offset, limit)
              IN  [name |-> name, size |-> size, limit |-> limit,
                   offset |-> offset, status_code |-> 200,
                   products |-> [j \in 1..Len(ids) |->
                                    serialize_doc(products, ids[j])],
                   detail |-> <<>>]
    /\ UNCHANGED <<products, orders, call, created, calls, hist>>

\* POST /products: insert_one of the document as given; nothing is checked.
create_product(product) ==
    /\ Len(products) < MaxProducts
    /\ products' = Append(products, product)
    /\ created' = Append(created, product.quantity)
    /\ UNCHANGED <<orders, call, listing, calls, hist>>

-----------------------------------------------------------------------------
(* Place-order. *)

Clients == {"c1", "c2"}

\* A product id is the text of an ObjectId: n stands for the id of the n-th
\* document inserted, whether or not it has been inserted yet.
ProductIds == 1..(MaxProducts + 1)

\* bought_quantity is any integer: nothing checks its sign.
BoughtQuantities == {-1, 1, 2}

OrderItem == [product_id : ProductIds, bought_quantity : BoughtQuantities]

Addresses == { <<"H", "Q">> }

\* The bodies of POST /orders: no, one or two items, in order.
OrderInputs ==
    [items : UNION { [1..n -> OrderItem] : n \in {0, 1, 2} },
     user_address : Addresses]

NoDoc == [name |-> <<>>, price |-> 0, quantity |-> 0]

\* A client that runs no request; the locals of create_order otherwise.
Idle ==
    [pc |-> "idle", items |-> <<>>, user_address |-> <<>>, i |-> 0,
     product |-> NoDoc, total_amount |-> 0, order_items |-> <<>>,
     raised |-> NoException, status_code |-> 0, detail |-> <<>>]

\* A stock check that lets one unit too many through.
StockCheckOffByOne(product, item) ==
    product.quantity + 1 < item.bought_quantity

\* if product["quantity"] < item.bought_quantity
StockInsufficient(product, item) ==
    product.quantity < item.bought_quantity

\* A line total that forgets the quantity.
ItemTotalUnitPrice(product, item) == product.price

\* item_total = product["price"] * item.bought_quantity
ItemTotal(product, item) == product.price * item.bought_quantity

\* A new quantity with the sign of the change reversed.
NewQuantityAdds(product, item) == product.quantity + item.bought_quantity

\* new_quantity = product["quantity"] - item.bought_quantity, of the
\* document as it was read.
NewQuantity(product, item) == product.quantity - item.bought_quantity

\* An atomic decrement of the stored quantity ($inc) in place of the $set.
UpdateOneInc(coll, id, product, item) ==
    [coll EXCEPT ![id].quantity = @ - item.bought_quantity]

\* An update that writes the quantity as read.
UpdateOneNoDecrement(coll, id, product, item) ==
    [coll EXCEPT ![id].quantity = product.quantity]

\* update_one({"_id": id}, {"$set": {"quantity": new_quantity}})
UpdateOne(coll, id, product, item) ==
    [coll EXCEPT ![id].quantity = NewQuantity(product, item)]

OrderDoc(c) ==
    [items |-> call[c].order_items, total_amount |-> call[c].total_amount,
     user_address |-> call[c].user_address]

\* The response to a raise inside process_order: the exception passes
\* through handle_db_operation's `except Exception`, and what that raises
\* passes the handler's `except HTTPException: raise`.
Respond(c, e) ==
    \E error_msg \in StrOfHTTPException(e) :
        LET r == handle_db_operation(error_msg)
        IN  call' = [call EXCEPT ![c].pc = "done", ![c].raised = e,
                                 ![c].status_code = r.status_code,
                                 ![c].detail = r.detail]

\* A raise that leaves the order built so far in the collection.
RaiseAfterInsert(c, e) ==
    /\ Respond(c, e)
    /\ orders' = Append(orders, OrderDoc(c))
    /\ UNCHANGED products

\* raise HTTPException(...) inside the loop: nothing is written.
Raise(c, e) ==
    /\ Respond(c, e)
    /\ UNCHANGED <<products, orders>>

ProductNotFound(item) ==
    HTTPException(404, T("Product with id ") \o T(ToString(item.product_id))
                       \o T(" not found"))

NotEnoughQuantity(product) ==
    HTTPException(400, T("Not enough quantity available for product ")
                       \o product.name)

\* POST /orders arrives: the locals of create_order are set up.
create_order(c, order) ==
    /\ call[c].pc \in {"idle", "done"}
    /\ calls < MaxCalls
    /\ calls' = calls + 1
    /\ call' = [call EXCEPT ![c] =
                  [Idle EXCEPT !.pc = IF order.items = <<>> THEN "insert"
                                                            ELSE "find",
                               !.items = order.items,
                               !.user_address = order.user_address,
                               !.i = 1]]
    /\ UNCHANGED <<products, orders, listing, created>>

\* One turn of the loop up to its write: find_one, the two checks, the
\* running total.
find_one(c) ==
    /\ call[c].pc = "find"
    /\ LET item == call[c].items[call[c].i]
       IN  IF item.product_id > Len(products)
           THEN Raise(c, ProductNotFound(item))
           ELSE LET product == products[item.product_id]
                IN  IF StockInsufficient(product, item)
                    THEN Raise(c, NotEnoughQuantity(product))
                    ELSE /\ call' = [call EXCEPT
                               ![c].pc = "update",
                               ![c].product = product,
                               ![c].total_amount = @ + ItemTotal(product, item)]
                         /\ UNCHANGED <<products, orders>>
    /\ UNCHANGED <<listing, created, calls>>

\* The write of the turn: update_one, then the line item is appended.
update_one(c) ==
    /\ call[c].pc = "update"
    /\ LET item == call[c].items[call[c].i]
           product == call[c].product
       IN  /\ products' = UpdateOne(products, item.product_id, product, item)
           /\ call' = [call EXCEPT
                 ![c].pc = IF call[c].i = Len(call[c].items) THEN "insert"
                                                             ELSE "find",
                 ![c].i = @ + 1,
                 ![c].order_items = Append(@,
                     [product_id |-> item.product_id,
                      bought_quantity |-> item.bought_quantity,
                      price |-> product.price,
                      total_price |-> ItemTotal(product, item)])]
    /\ UNCHANGED <<orders, listing, created, calls>>

\* After the loop: the order document is inserted and 201 returned.
insert_one(c) ==
    /\ call[c].pc = "insert"
    /\ orders' = Append(orders, OrderDoc(c))
    /\ call' = [call EXCEPT ![c].pc = "done", ![c].status_code = 201,
                            ![c].detail = T("Order created successfully")]
    /\ UNCHANGED <<products, listing, created, calls>>

-----------------------------------------------------------------------------
(* Specifications. *)

NoHistory ==
    [products |-> <<>>, orders |-> <<>>, failed |-> FALSE, nonpos |-> FALSE]

\* The state after start-up: both collections empty, no request running.
Init ==
    /\ products = <<>>
    /\ orders = <<>>
    /\ call = [c \in Clients |-> Idle]
    /\ listing = NoListing
    /\ created = <<>>
    /\ calls = 0
    /\ hist = NoHistory

\* The requests the overlapping clients send.
RaceInputs ==
    { o \in OrderInputs :
        \A j \in 1..Len(o.items) :
            /\ o.items[j].product_id \in {1, 2}
            /\ o.items[j].bought_quantity \in {1, 2} }

\* Requests of several clients overlap: each store operation is one step.
Next ==
    \/ \E product \in ProductInputs : create_product(product)
    \/ \E c \in Clients, order \in RaceInputs :
          create_order(c, order) /\ UNCHANGED hist
    \/ \E c \in Clients : find_one(c) /\ UNCHANGED hist
    \/ \E c \in Clients : update_one(c) /\ UNCHANGED hist
    \/ \E c \in Clients : insert_one(c) /\ UNCHANGED hist

Spec == Init /\ [][Next]_vars

SeqClient == "c1"

\* The history a sequential run keeps: the store as the call found it,
\* whether a call has failed, whether a bought_quantity below 1 was sent.
Began(order) ==
    [products |-> products, orders |-> orders, failed |-> hist.failed,
     nonpos |-> hist.nonpos \/ \E j \in 1..Len(order.items) :
                    order.items[j].bought_quantity < 1]

Stepped ==
    [hist EXCEPT !.failed = @ \/ call'[SeqClient].status_code \notin {0, 201}]

\* One client, one request at a time, create-product included.
SeqNext ==
    \/ \E product \in ProductInputs :
          call[SeqClient].pc \in {"idle", "done"} /\ create_product(product)
    \/ \E order \in OrderInputs :
          create_order(SeqClient, order) /\ hist' = Began(order)
    \/ find_one(SeqClient) /\ hist' = Stepped
    \/ update_one(SeqClient) /\ hist' = Stepped
    \/ insert_one(SeqClient) /\ hist' = Stepped

SeqSpec == Init /\ [][SeqNext]_vars

\* list-products reads the store and writes nothing: it is checked over the
\* collections create-product can have built.
ListInit ==
    /\ products \in UNION { [1..n -> ListInputs] : n \in 0..MaxListed }
    /\ orders = <<>>
    /\ call = [c \in Clients |-> Idle]
    /\ listing = NoListing
    /\ created = [j \in 1..Len(products) |-> products[j].quantity]
    /\ calls = 0
    /\ hist = NoHistory

ListNext ==
    \E name \in Filters, size \in Sizes, limit \in Limits, offset \in Offsets :
        list_products(name, size, limit, offset)

ListSpec == ListInit /\ [][ListNext]_vars

-----------------------------------------------------------------------------
(* What the claims are stated with. *)

Done(c) == call[c].pc = "done"

\* The item the call was working on when it ended.
FailedAt(c) == call[c].i

RECURSIVE SumTotalPrice(_)
SumTotalPrice(lines) ==
    IF lines = <<>> THEN 0
    ELSE SumTotalPrice(SubSeq(lines, 1, Len(lines) - 1))
         + lines[Len(lines)].total_price

\* bought_quantity summed over the first n of the items (or line items)
\* that reference product id.
RECURSIVE BoughtOf(_, _, _)
BoughtOf(items, id, n) ==
    IF n = 0 THEN 0
    ELSE BoughtOf(items, id, n - 1)
         + (IF items[n].product_id = id THEN items[n].bought_quantity ELSE 0)

\* bought_quantity summed over every line item of the first n orders that
\* references product id.
RECURSIVE Sold(_, _)
Sold(id, n) ==
    IF n = 0 THEN 0
    ELSE Sold(id, n - 1) + BoughtOf(orders[n].items, id, Len(orders[n].items))

Quiescent == \A c \in Clients : call[c].pc \in {"idle", "done"}

\* Every item passes both checks when the items are taken in order against
\* the store as the call found it.
AllPass(items, before) ==
    \A j \in 1..Len(items) :
        /\ items[j].product_id <= Len(before)
        /\ before[items[j].product_id].quantity
             - BoughtOf(items, items[j].product_id, j - 1)
           >= items[j].bought_quantity

ReturnedIds == { listing.products[j]._id : j \in 1..Len(listing.products) }

MetaFree(text) == \A j \in 1..Len(text) : text[j] \notin RegexMeta

-----------------------------------------------------------------------------
(* C1.  A NotFound (404) or InsufficientStock (400) raised by place-order  *)
(* reaches the caller as raised: same status, same detail.                 *)
C1_DomainErrorVerbatim ==
    \A c \in Clients :
        (Done(c) /\ call[c].raised.status_code \in {404, 400})
        => /\ call[c].status_code = call[c].raised.status_code
           /\ call[c].detail = call[c].raised.detail

(* C2.  When the k-th item (k >= 2) of a request names a product that is   *)
(* not there, the products of items 1..k-1 have their quantity of before   *)
(* the call.  Stated for requests that buy at least one of each item.      *)
C2_NotFoundLeavesEarlierStock ==
    (/\ Done(SeqClient)
     /\ \A j \in 1..Len(call[SeqClient].items) :
           call[SeqClient].items[j].bought_quantity >= 1
     /\ call[SeqClient].raised.status_code = 404
     /\ FailedAt(SeqClient) >= 2)
    => \A j \in 1..(FailedAt(SeqClient) - 1) :
          LET id == call[SeqClient].items[j].product_id
          IN  products[id].quantity = hist.products[id].quantity

(* C3.  A place-order call that fails on a missing product or on           *)
(* insufficient stock inserts no order: the orders collection is what it   *)
(* was before the call, at whatever position the failing item stands.      *)
C3_FailedCallInsertsNoOrder ==
    (Done(SeqClient) /\ call[SeqClient].raised.status_code \in {404, 400})
    => orders = hist.orders

C3_FailsAtSecondItem ==
    /\ Done(SeqClient)
    /\ call[SeqClient].raised.status_code = 400
    /\ FailedAt(SeqClient) = 2
    /\ Len(call[SeqClient].order_items) = 1
    /\ Len(hist.orders) = 1
    /\ orders = hist.orders

(* C4.  Two successful one-item calls on the same product that each read   *)
(* the same quantity leave the quantity of one decrement only: the other   *)
(* is overwritten.                                                         *)
C4_LostUpdate ==
    \A c \in Clients, d \in Clients :
        (/\ c # d
         /\ Done(c) /\ call[c].status_code = 201 /\ Len(call[c].items) = 1
         /\ Done(d) /\ call[d].status_code = 201 /\ Len(call[d].items) = 1
         /\ call[c].items[1].product_id = call[d].items[1].product_id
         /\ call[c].product.quantity = call[d].product.quantity)
        => LET id == call[c].items[1].product_id
               q  == call[c].product.quantity
           IN  products[id].quantity \in
                  { q - call[c].items[1].bought_quantity,
                    q - call[d].items[1].bought_quantity }

\* Both orders recorded, more sold than there was, one decrement stored.
C4_OverSold ==
    \E c \in Clients, d \in Clients :
        /\ c # d
        /\ Done(c) /\ call[c].status_code = 201 /\ Len(call[c].items) = 1
        /\ Done(d) /\ call[d].status_code = 201 /\ Len(call[d].items) = 1
        /\ call[c].items[1].product_id = call[d].items[1].product_id
        /\ call[c].product.quantity = call[d].product.quantity
        /\ LET id == call[c].items[1].product_id
               q  == call[c].product.quantity
               b  == call[c].items[1].bought_quantity
               e  == call[d].items[1].bought_quantity
           IN  /\ b + e > q
               /\ q = created[id]
               /\ Len(orders) = 2
               /\ Sold(id, 2) = b + e
               /\ products[id].quantity = q - b
               /\ products[id].quantity # q - b - e

(* C5.  A product created with a quantity >= 0 has a quantity >= 0 in      *)
(* every reachable state, overlapping place-order calls included.          *)
C5_QuantityNeverNegative ==
    \A id \in 1..Len(products) :
        created[id] >= 0 => products[id].quantity >= 0

C5_SoldOutByOverlap ==
    \E id \in 1..Len(products) :
        /\ created[id] > 0
        /\ products[id].quantity = 0
        /\ Quiescent
        /\ Sold(id, Len(orders)) > created[id]

(* C6.  In every order record total_amount is the sum of the lines'        *)
(* total_price, and each line's total_price is its price times its         *)
(* bought_quantity, the price being the product's.                         *)
C6_OrderTotals ==
    \A n \in 1..Len(orders) :
        /\ orders[n].total_amount = SumTotalPrice(orders[n].items)
        /\ \A j \in 1..Len(orders[n].items) :
              LET line == orders[n].items[j]
              IN  /\ line.total_price = line.price * line.bought_quantity
                  /\ line.price = products[line.product_id].price

C6_TwoLinesOneProduct ==
    \E n \in 1..Len(orders) :
        /\ Len(orders[n].items) = 2
        /\ orders[n].items[1].product_id = orders[n].items[2].product_id
        /\ orders[n].total_amount = 6
        /\ \E c \in Clients : call[c].pc = "update"

(* C7.  A call that overlaps no other and whose items all pass the checks  *)
(* ends in 201, appends one order with one line per item in the order      *)
(* sent, and leaves each product it names with its quantity of before the  *)
(* call less the bought_quantity of the items naming it; name and price    *)
(* stay.                                                                   *)
C7_SequentialOrder ==
    (Done(SeqClient) /\ AllPass(call[SeqClient].items, hist.products))
    => LET items == call[SeqClient].items
       IN  /\ call[SeqClient].status_code = 201
           /\ Len(orders) = Len(hist.orders) + 1
           /\ SubSeq(orders, 1, Len(hist.orders)) = hist.orders
           /\ Len(orders[Len(orders)].items) = Len(items)
           /\ \A j \in 1..Len(items) :
                 LET line == orders[Len(orders)].items[j]
                     id   == items[j].product_id
                 IN  /\ line.product_id = id
                     /\ line.bought_quantity = items[j].bought_quantity
                     /\ products[id].quantity =
                           hist.products[id].quantity
                             - BoughtOf(items, id, Len(items))
                     /\ products[id].name = hist.products[id].name
                     /\ products[id].price = hist.products[id].price

C7_TwoItemsBought ==
    /\ Done(SeqClient)
    /\ call[SeqClient].status_code = 201
    /\ AllPass(call[SeqClient].items, hist.products)
    /\ Len(call[SeqClient].items) = 2
    /\ hist.products[1].quantity = 2
    /\ products[1].quantity = 0
    /\ Len(orders) = 1

(* C8.  A page of list-products is the matching products at positions      *)
(* offset+1 .. offset+limit in insertion order, fewer when they end        *)
(* earlier, and never more than limit of them.                             *)
C8_PageIsSlice ==
    (listing.status_code = 200 /\ listing.limit >= 0 /\ listing.offset >= 0)
    => LET ids == Find(products, listing.name, listing.size, Len(products))
           last == Min(listing.offset + listing.limit, Len(ids))
       IN  /\ Len(listing.products) <= listing.limit
           /\ [j \in 1..Len(listing.products) |-> listing.products[j]._id]
                = SubSeq(ids, listing.offset + 1, last)

(* C9, as claimed.  With a name filter, and the page wide enough, a        *)
(* product is returned exactly when its name contains the filter text,     *)
(* case folded, whatever the filter text.                                  *)
C9_SubstringForEveryFilter ==
    (/\ listing.status_code = 200
     /\ listing.name # <<>> /\ listing.size = <<>>
     /\ listing.offset = 0 /\ listing.limit = DefaultLimit)
    => \A id \in 1..Len(products) :
          id \in ReturnedIds <=> ContainsCI(products[id].name, listing.name)

(* C9, amended.  The same for a filter text that holds no regex            *)
(* metacharacter: the filter is a regular expression, and only such a      *)
(* text stands for itself.                                                 *)
C9_SubstringForPlainFilter ==
    (/\ listing.status_code = 200
     /\ listing.name # <<>> /\ listing.size = <<>>
     /\ MetaFree(listing.name)
     /\ listing.offset = 0 /\ listing.limit = DefaultLimit)
    => \A id \in 1..Len(products) :
          id \in ReturnedIds <=> ContainsCI(products[id].name, listing.name)

C9_LapFindsLaptopNotDesk ==
    /\ listing.status_code = 200
    /\ listing.name = <<"l", "a", "p">> /\ listing.size = <<>>
    /\ listing.offset = 0 /\ listing.limit = DefaultLimit
    /\ Len(products) = 2
    /\ products[1].name = Desk /\ products[2].name = Laptop
    /\ ReturnedIds = {2}

(* C10.  With one call at a time and every bought_quantity >= 1, after     *)
(* any sequence of calls what the orders hold of a product plus what is    *)
(* left of it is at most what it was created with, and exactly that while  *)
(* no place-order call has failed.                                         *)
C10_NoOverSellingSequential ==
    (Quiescent /\ ~hist.nonpos)
    => \A id \in 1..Len(products) :
          /\ Sold(id, Len(orders)) + products[id].quantity <= created[id]
          /\ ~hist.failed
                => Sold(id, Len(orders)) + products[id].quantity = created[id]

C10_StockLostToFailedCall ==
    /\ Quiescent /\ ~hist.nonpos /\ hist.failed
    /\ Len(orders) = 1
    /\ Sold(1, 1) = 1
    /\ products[1].quantity = 0
    /\ created[1] = 2

=============================================================================
